---- MODULE Spec2Model ----
(***************************************************************************)
(* AccuWeather weather entity (homeassistant/components/accuweather/       *)
(* weather.py): the read properties of AccuWeatherEntity over the data the *)
(* update coordinator owns.                                                *)
(*                                                                         *)
(* Python values are modelled as follows.  A dict is a function whose      *)
(* DOMAIN is its key set, so d[k] with k outside DOMAIN d is a KeyError.   *)
(* The outcome of a property read is a record                              *)
(*     [kind |-> "value" | "none" | "raise", exc, val]                     *)
(* where val is the 1-tuple holding the returned object, "none" is a       *)
(* returned None and exc names the exception that left the property.       *)
(* Floats are integers (no arithmetic is done on them by this file).       *)
(***************************************************************************)
EXTENDS Integers, Sequences, FiniteSets, TLC

VARIABLES
    CONDITION_CLASSES, \* const.CONDITION_CLASSES: ordered <<[name, codes]>>
    data,              \* coordinator.data: the current snapshot
    forecast_on,       \* coordinator.forecast: truthiness of the forecast handle
    attrs,             \* the entity's _attr_* values set by __init__
    op,                \* the property read last since the last refresh ("" if none)
    result,            \* its outcome
    forecastLog,       \* outcomes of the latest forecast reads since the last refresh
    pc,                \* position of the read in progress (stepwise reads)
    idx,               \* condition: index of the table item being tested
    acc,               \* condition: the names collected so far
    seen               \* <<data, forecast_on>> at the moment the read was called

vars == <<CONDITION_CLASSES, data, forecast_on, attrs, op, result,
          forecastLog, pc, idx, acc, seen>>

coordVars == <<CONDITION_CLASSES, data, forecast_on, attrs>>
stepVars == <<pc, idx, acc, seen>>

-----------------------------------------------------------------------------
(* Bounds of the model *)

MaxCode == 2        \* table codes are 1..MaxCode; icon MaxCode+1 is never listed
MaxDays == 5        \* forecast lists have 0..MaxDays entries
MaxReads == 2       \* forecastLog keeps the latest MaxReads outcomes

Codes == 1..MaxCode
Icons == 1..(MaxCode + 1)

-----------------------------------------------------------------------------
(* Outcomes *)

Value(v) == [kind |-> "value", exc |-> "", val |-> <<v>>]
None == [kind |-> "none", exc |-> "", val |-> <<>>]
Raise(e) == [kind |-> "raise", exc |-> e, val |-> <<>>]
NoCall == [kind |-> "nocall", exc |-> "", val |-> <<>>]

-----------------------------------------------------------------------------
(* Names imported from const.py and the weather component *)

API_METRIC == "Metric"
ATTR_FORECAST == "forecast"
ATTRIBUTION == "Data provided by AccuWeather"

\* Canonical condition names, in the declaration order of the table.
ClassNames == <<"clear-night", "cloudy">>

\* The condition tables considered: every ordered table over ClassNames
\* whose code lists are non-empty subsets of Codes.  The same code may be
\* listed under two names, and a code may be listed under none.
ConditionTables ==
    { [i \in 1..Len(ClassNames) |-> [name |-> ClassNames[i], codes |-> f[i]]] :
      f \in [1..Len(ClassNames) -> (SUBSET Codes) \ {{}}] }

-----------------------------------------------------------------------------
(* utc_from_timestamp(ts).isoformat() *)

SecondsPerDay == 24 * 3600

\* Proleptic Gregorian date of a day count since 1970-01-01.
CivilFromDays(days) ==
    LET z == days + 719468
        era == z \div 146097
        doe == z - era * 146097
        yoe == (doe - doe \div 1460 + doe \div 36524 - doe \div 146096) \div 365
        doy == doe - (365 * yoe + yoe \div 4 - yoe \div 100)
        mp == (5 * doy + 2) \div 153
        d == doy - (153 * mp + 2) \div 5 + 1
        m == IF mp < 10 THEN mp + 3 ELSE mp - 9
        y == yoe + era * 400 + (IF m <= 2 THEN 1 ELSE 0)
    IN <<y, m, d>>

\* The ISO-8601 instant YYYY-MM-DDThh:mm:ss+00:00, as its fields.
utc_isoformat(ts) ==
    LET date == CivilFromDays(ts \div SecondsPerDay)
        sod == ts % SecondsPerDay
    IN [year |-> date[1], month |-> date[2], day |-> date[3],
        hour |-> sod \div 3600, minute |-> (sod % 3600) \div 60,
        second |-> sod % 60, offset |-> "+00:00"]

-----------------------------------------------------------------------------
(* Dict access *)

Has(d, k) == k \in DOMAIN d

RECURSIVE HasPath(_, _)
HasPath(d, path) ==
    IF path = <<>> THEN TRUE
    ELSE Has(d, Head(path)) /\ HasPath(d[Head(path)], Tail(path))

RECURSIVE At(_, _)
At(d, path) == IF path = <<>> THEN d ELSE At(d[Head(path)], Tail(path))

\* d[k1][k2]...[kn]: the value, or the KeyError of the first missing key.
Subscript(d, path) ==
    IF HasPath(d, path) THEN Value(At(d, path)) ELSE Raise("KeyError")

-----------------------------------------------------------------------------
(* The read properties, as functions of what they read *)

\* [k for k, v in CONDITION_CLASSES.items() if icon in v]
\* (faulty variant for C4: the filter is dropped)
MatchesAll(cc, icon) == [i \in 1..Len(cc) |-> cc[i].name]
Matches(cc, icon) ==
    LET hit == SelectSeq(cc, LAMBDA e : icon \in e.codes)
    IN [i \in 1..Len(hit) |-> hit[i].name]

\* [...][0]
\* (faulty variant for C10: [-1])
LastMatch(ks) == ks[Len(ks)]
FirstMatch(ks) == ks[1]

\* The `if` of the comprehension subscripts coordinator.data once per table
\* item, so a missing "WeatherIcon" is a KeyError as soon as the table has
\* an item; only IndexError (no match) is caught and turned into None.
\* (condition_uncaught is the faulty variant for C5: no except clause)
condition_uncaught(cc, d) ==
    IF Len(cc) > 0 /\ ~Has(d, "WeatherIcon") THEN Raise("KeyError")
    ELSE LET ks == IF Len(cc) = 0 THEN <<>> ELSE Matches(cc, d["WeatherIcon"])
         IN IF Len(ks) = 0 THEN Raise("IndexError") ELSE Value(FirstMatch(ks))
condition(cc, d) ==
    IF Len(cc) > 0 /\ ~Has(d, "WeatherIcon") THEN Raise("KeyError")
    ELSE LET ks == IF Len(cc) = 0 THEN <<>> ELSE Matches(cc, d["WeatherIcon"])
         IN IF Len(ks) = 0 THEN None ELSE Value(FirstMatch(ks))

\* (faulty variant for C7: .get() chains that give None for a missing key)
native_temperature_get(d) ==
    IF HasPath(d, <<"Temperature", API_METRIC, "Value">>)
    THEN Value(At(d, <<"Temperature", API_METRIC, "Value">>)) ELSE None
native_temperature(d) == Subscript(d, <<"Temperature", API_METRIC, "Value">>)

native_pressure(d) == Subscript(d, <<"Pressure", API_METRIC, "Value">>)

humidity(d) == Subscript(d, <<"RelativeHumidity">>)

native_wind_speed(d) == Subscript(d, <<"Wind", "Speed", API_METRIC, "Value">>)

wind_bearing(d) == Subscript(d, <<"Wind", "Direction", "Degrees">>)

native_visibility(d) == Subscript(d, <<"Visibility", API_METRIC, "Value">>)

\* The subscripts of one forecast dict display, in evaluation order; the
\* condition comprehension (item["IconDay"]) is evaluated last.
ItemPaths ==
    << <<"EpochDate">>, <<"TemperatureMax", "Value">>,
       <<"TemperatureMin", "Value">>, <<"TotalLiquidDay", "Value">>,
       <<"PrecipitationProbabilityDay">>, <<"WindDay", "Speed", "Value">>,
       <<"WindDay", "Direction", "Degrees">> >>

\* One element of the list comprehension.  The [0] of the condition
\* comprehension is not inside any try: no match is an IndexError.
forecast_item(cc, item) ==
    IF \E i \in 1..Len(ItemPaths) : Subscript(item, ItemPaths[i]).kind = "raise"
    THEN Raise("KeyError")
    ELSE IF Len(cc) > 0 /\ ~Has(item, "IconDay") THEN Raise("KeyError")
    ELSE LET ks == IF Len(cc) = 0 THEN <<>> ELSE Matches(cc, item["IconDay"])
         IN IF Len(ks) = 0 THEN Raise("IndexError")
            ELSE Value([datetime |-> utc_isoformat(item["EpochDate"]),
                        native_temperature |-> item["TemperatureMax"]["Value"],
                        native_templow |-> item["TemperatureMin"]["Value"],
                        native_precipitation |-> item["TotalLiquidDay"]["Value"],
                        precipitation_probability |->
                            item["PrecipitationProbabilityDay"],
                        native_wind_speed |-> item["WindDay"]["Speed"]["Value"],
                        wind_bearing |-> item["WindDay"]["Direction"]["Degrees"],
                        condition |-> FirstMatch(ks)])

\* [ {...} for item in items ]: the exception of the first item that raises,
\* else the list of entries in the order of items.
\* (ForecastListReversed is the faulty variant for C6: reversed(items))
ForecastListReversed(cc, items) ==
    LET n == Len(items)
        outs == [i \in 1..n |-> forecast_item(cc, items[n + 1 - i])]
        bad == {i \in 1..n : outs[i].kind = "raise"}
    IN IF bad # {} THEN outs[CHOOSE i \in bad : \A j \in bad : i <= j]
       ELSE Value([i \in 1..n |-> outs[i].val[1]])
ForecastList(cc, items) ==
    LET n == Len(items)
        outs == [i \in 1..n |-> forecast_item(cc, items[i])]
        bad == {i \in 1..n : outs[i].kind = "raise"}
    IN IF bad # {} THEN outs[CHOOSE i \in bad : \A j \in bad : i <= j]
       ELSE Value([i \in 1..n |-> outs[i].val[1]])

\* fc is the truthiness of coordinator.forecast; d is coordinator.data.
\* (forecast_if_list is the faulty variant for C2: an empty list gives None)
forecast_if_list(cc, fc, d) ==
    IF ~fc THEN None
    ELSE IF ~Has(d, ATTR_FORECAST) THEN Raise("KeyError")
    ELSE IF Len(d[ATTR_FORECAST]) = 0 THEN None
    ELSE ForecastList(cc, d[ATTR_FORECAST])
forecast(cc, fc, d) ==
    IF ~fc THEN None
    ELSE IF ~Has(d, ATTR_FORECAST) THEN Raise("KeyError")
    ELSE ForecastList(cc, d[ATTR_FORECAST])

-----------------------------------------------------------------------------
(* The snapshots the coordinator may publish *)

\* 2000-02-28T07:00:00Z: the forecast days run across a leap day.
FirstEpoch == 11015 * SecondsPerDay + 7 * 3600

DayItem(day, icon) ==
    [EpochDate |-> FirstEpoch + (day - 1) * SecondsPerDay,
     TemperatureMax |-> [Value |-> 20 + day],
     TemperatureMin |-> [Value |-> 10 + day],
     TotalLiquidDay |-> [Value |-> day],
     PrecipitationProbabilityDay |-> 10 * day,
     WindDay |-> [Speed |-> [Value |-> 5 + day],
                  Direction |-> [Degrees |-> 45 * day]],
     IconDay |-> icon]

CurrentConditions(icon) ==
    [WeatherIcon |-> icon,
     Temperature |-> [Metric |-> [Value |-> 21]],
     Pressure |-> [Metric |-> [Value |-> 1013]],
     RelativeHumidity |-> 67,
     Wind |-> [Speed |-> [Metric |-> [Value |-> 20]],
               Direction |-> [Degrees |-> 180]],
     Visibility |-> [Metric |-> [Value |-> 16]]]

\* d without the key that ends path (a payload lacking that field).
RECURSIVE DropPath(_, _)
DropPath(d, path) ==
    IF Len(path) = 1 THEN [k \in DOMAIN d \ {path[1]} |-> d[k]]
    ELSE [d EXCEPT ![path[1]] = DropPath(@, Tail(path))]

\* Paths dropped from the current conditions, at every depth a getter uses.
CurrentDrops ==
    { <<"WeatherIcon">>, <<"Temperature">>, <<"Pressure", "Metric">>,
      <<"RelativeHumidity">>, <<"Wind">>, <<"Wind", "Speed", "Metric", "Value">>,
      <<"Wind", "Direction">>, <<"Visibility", "Metric", "Value">> }

\* Paths dropped from one forecast item.
ItemDrops ==
    { <<"EpochDate">>, <<"TemperatureMax", "Value">>, <<"TemperatureMin">>,
      <<"TotalLiquidDay", "Value">>, <<"PrecipitationProbabilityDay">>,
      <<"WindDay">>, <<"WindDay", "Speed">>,
      <<"WindDay", "Direction", "Degrees">>, <<"IconDay">> }

\* Well-formed daily lists, chronological: every day has icon 1 but the
\* last, which has any icon.
WellFormedLists ==
    { [day \in 1..n |-> DayItem(day, IF day = n THEN icon ELSE 1)] :
      n \in 0..MaxDays, icon \in Icons }

\* Two-day lists with one item lacking one field: the second day lacking
\* any of ItemDrops, or the first day lacking its date or its icon.
MalformedList(bad, p) ==
    [day \in 1..2 |-> IF day = bad THEN DropPath(DayItem(day, 1), p)
                                    ELSE DayItem(day, 1)]
MalformedLists ==
    { MalformedList(2, p) : p \in ItemDrops }
    \cup { MalformedList(1, p) : p \in {<<"EpochDate">>, <<"IconDay">>} }

WithForecast(cur, list) == (ATTR_FORECAST :> list) @@ cur

Snapshots ==
    { CurrentConditions(icon) : icon \in Icons }
    \cup { DropPath(CurrentConditions(1), p) : p \in CurrentDrops }
    \cup { WithForecast(CurrentConditions(1), l) :
             l \in WellFormedLists \cup MalformedLists }

\* What the first refresh, awaited before the entity is created, fetched.
FirstSnapshot == CurrentConditions(1)

LocationKeys == {"0123456"}

-----------------------------------------------------------------------------
(* The entity *)

\* AccuWeatherEntity.__init__
init_attrs(location_key) ==
    [native_precipitation_unit |-> "mm",
     native_pressure_unit |-> "hPa",
     native_temperature_unit |-> "C",
     native_visibility_unit |-> "km",
     native_wind_speed_unit |-> "km/h",
     unique_id |-> location_key,
     attribution |-> ATTRIBUTION,
     device_info |-> [identifiers |-> location_key]]

\* The coordinator is not part of weather.py.  Its forecast handle is taken
\* to be truthy exactly when the snapshot it published carries a forecast
\* list (an empty list included).
ForecastAvailable(d) == Has(d, ATTR_FORECAST)

Init ==
    /\ CONDITION_CLASSES \in ConditionTables
    /\ data = FirstSnapshot
    /\ forecast_on = ForecastAvailable(data)
    /\ \E key \in LocationKeys : attrs = init_attrs(key)
    /\ op = ""
    /\ result = NoCall
    /\ forecastLog = <<>>
    /\ pc = "idle"
    /\ idx = 0
    /\ acc = <<>>
    /\ seen = <<>>

\* The property bodies are plain synchronous code: nothing in them awaits,
\* so the event loop cannot run the coordinator inside a read.
\* (Awaits is the faulty variant for C3: forecast awaits between its reads)
Awaits(o) == o = "forecast"
Suspends(o) == FALSE

\* The coordinator replaces its data by a newly fetched snapshot (a swap of
\* the whole object) together with the forecast handle.
Refresh ==
    /\ pc = "idle" \/ Suspends(op)
    /\ \E d \in Snapshots :
          /\ data' = d
          /\ forecast_on' = ForecastAvailable(d)
    /\ forecastLog' = <<>>
    /\ IF pc = "idle"
       THEN op' = "" /\ result' = NoCall /\ seen' = <<>>
       ELSE UNCHANGED <<op, result, seen>>
    /\ UNCHANGED <<CONDITION_CLASSES, attrs, pc, idx, acc>>

Logged(log, r) ==
    IF Len(log) < MaxReads THEN Append(log, r) ELSE Append(Tail(log), r)

\* A whole property read: o returns or raises r and writes nothing.
Read(o, r) ==
    /\ pc = "idle"
    /\ op' = o
    /\ result' = r
    /\ UNCHANGED <<coordVars, stepVars>>

Get_condition ==
    /\ Read("condition", condition(CONDITION_CLASSES, data))
    /\ UNCHANGED forecastLog

Get_native_temperature ==
    /\ Read("native_temperature", native_temperature(data))
    /\ UNCHANGED forecastLog

Get_native_pressure ==
    /\ Read("native_pressure", native_pressure(data))
    /\ UNCHANGED forecastLog

\* (faulty variant for C8: data.pop("RelativeHumidity"))
Get_humidity_pop ==
    /\ pc = "idle"
    /\ op' = "humidity"
    /\ result' = humidity(data)
    /\ data' = IF Has(data, "RelativeHumidity")
               THEN DropPath(data, <<"RelativeHumidity">>) ELSE data
    /\ UNCHANGED <<CONDITION_CLASSES, forecast_on, attrs, stepVars, forecastLog>>
Get_humidity ==
    /\ Read("humidity", humidity(data))
    /\ UNCHANGED forecastLog

Get_native_wind_speed ==
    /\ Read("native_wind_speed", native_wind_speed(data))
    /\ UNCHANGED forecastLog

Get_wind_bearing ==
    /\ Read("wind_bearing", wind_bearing(data))
    /\ UNCHANGED forecastLog

Get_native_visibility ==
    /\ Read("native_visibility", native_visibility(data))
    /\ UNCHANGED forecastLog

\* (faulty variant for C9: the items are popped off the list while read)
Get_forecast_consuming ==
    /\ pc = "idle"
    /\ op' = "forecast"
    /\ result' = forecast(CONDITION_CLASSES, forecast_on, data)
    /\ data' = IF forecast_on /\ Has(data, ATTR_FORECAST)
                  /\ Len(data[ATTR_FORECAST]) > 0
               THEN [data EXCEPT ![ATTR_FORECAST] = Tail(@)] ELSE data
    /\ forecastLog' = Logged(forecastLog, result')
    /\ UNCHANGED <<CONDITION_CLASSES, forecast_on, attrs, stepVars>>
Get_forecast ==
    /\ Read("forecast", forecast(CONDITION_CLASSES, forecast_on, data))
    /\ forecastLog' = Logged(forecastLog, result')

Next ==
    \/ Refresh
    \/ Get_condition
    \/ Get_native_temperature
    \/ Get_native_pressure
    \/ Get_humidity
    \/ Get_native_wind_speed
    \/ Get_wind_bearing
    \/ Get_native_visibility
    \/ Get_forecast

Spec == Init /\ [][Next]_vars

-----------------------------------------------------------------------------
(* The same reads, one access to the coordinator at a time *)

ScalarOps == {"native_temperature", "native_pressure", "humidity",
              "native_wind_speed", "wind_bearing", "native_visibility"}
Ops == {"condition", "forecast"} \cup ScalarOps

\* What the read o returns when everything it reads is snapshot d with
\* forecast handle fc.
Whole(o, cc, d, fc) ==
    CASE o = "condition" -> condition(cc, d)
      [] o = "forecast" -> forecast(cc, fc, d)
      [] o = "native_temperature" -> native_temperature(d)
      [] o = "native_pressure" -> native_pressure(d)
      [] o = "humidity" -> humidity(d)
      [] o = "native_wind_speed" -> native_wind_speed(d)
      [] o = "wind_bearing" -> wind_bearing(d)
      [] o = "native_visibility" -> native_visibility(d)

\* The host reads property o.
Call(o) ==
    /\ pc = "idle"
    /\ op' = o
    /\ result' = NoCall
    /\ pc' = IF o \in ScalarOps THEN "scalar" ELSE o
    /\ idx' = 1
    /\ acc' = <<>>
    /\ seen' = <<data, forecast_on>>
    /\ UNCHANGED <<coordVars, forecastLog>>

Return(r) ==
    /\ result' = r
    /\ pc' = "idle"
    /\ UNCHANGED <<coordVars, forecastLog, op, idx, acc, seen>>

\* One iteration of the comprehension of condition: the filter subscripts
\* self.coordinator.data anew for every table item.
Step_condition ==
    /\ pc = "condition"
    /\ IF idx > Len(CONDITION_CLASSES)
       THEN Return(IF Len(acc) = 0 THEN None ELSE Value(FirstMatch(acc)))
       ELSE IF ~Has(data, "WeatherIcon")
       THEN Return(Raise("KeyError"))
       ELSE /\ acc' = IF data["WeatherIcon"] \in CONDITION_CLASSES[idx].codes
                      THEN Append(acc, CONDITION_CLASSES[idx].name) ELSE acc
            /\ idx' = idx + 1
            /\ UNCHANGED <<coordVars, forecastLog, op, result, pc, seen>>

\* if not self.coordinator.forecast: return None
Step_forecast_check ==
    /\ pc = "forecast"
    /\ IF ~forecast_on
       THEN Return(None)
       ELSE /\ pc' = "forecast_list"
            /\ UNCHANGED <<coordVars, forecastLog, op, result, idx, acc, seen>>

\* The comprehension subscripts self.coordinator.data once and iterates the
\* list object it got.
Step_forecast_list ==
    /\ pc = "forecast_list"
    /\ Return(IF ~Has(data, ATTR_FORECAST) THEN Raise("KeyError")
              ELSE ForecastList(CONDITION_CLASSES, data[ATTR_FORECAST]))

Step_scalar ==
    /\ pc = "scalar"
    /\ Return(Whole(op, CONDITION_CLASSES, data, forecast_on))

NextSteps ==
    \/ Refresh
    \/ \E o \in Ops : Call(o)
    \/ Step_condition
    \/ Step_forecast_check
    \/ Step_forecast_list
    \/ Step_scalar

SpecSteps == Init /\ [][NextSteps]_vars

-----------------------------------------------------------------------------
(* Properties *)

\* The positions of the table whose code list holds icon.
Listing(icon) ==
    {i \in 1..Len(CONDITION_CLASSES) : icon \in CONDITION_CLASSES[i].codes}

Earliest(S) == CHOOSE i \in S : \A j \in S : i <= j

\* The forecast list of the snapshot, once forecast has been read on it.
ForecastRead ==
    op = "forecast" /\ pc = "idle" /\ forecast_on /\ Has(data, ATTR_FORECAST)

\* Every field forecast copies is present in item.
WellFormedItem(item) ==
    /\ {"EpochDate", "TemperatureMax", "TemperatureMin", "TotalLiquidDay",
         "PrecipitationProbabilityDay", "WindDay", "IconDay"} \subseteq DOMAIN item
    /\ "Value" \in DOMAIN item["TemperatureMax"]
    /\ "Value" \in DOMAIN item["TemperatureMin"]
    /\ "Value" \in DOMAIN item["TotalLiquidDay"]
    /\ {"Speed", "Direction"} \subseteq DOMAIN item["WindDay"]
    /\ "Value" \in DOMAIN item["WindDay"]["Speed"]
    /\ "Degrees" \in DOMAIN item["WindDay"]["Direction"]

\* C1 (as claimed): forecast resolves each entry's icon as condition does for
\* a snapshot with that current icon; an unlisted icon gives an entry whose
\* condition is None, and forecast does not raise.
C1_ForecastResolvesLikeCondition ==
    (ForecastRead /\ \A k \in DOMAIN data[ATTR_FORECAST] :
                        WellFormedItem(data[ATTR_FORECAST][k]))
    => /\ result.kind = "value"
       /\ \A k \in DOMAIN data[ATTR_FORECAST] :
            LET c == condition(CONDITION_CLASSES,
                               CurrentConditions(data[ATTR_FORECAST][k]["IconDay"]))
            IN /\ c.kind # "raise"
               /\ result.val[1][k].condition =
                     (IF c.kind = "none" THEN "None" ELSE c.val[1])

C4_UniqueCodeGivesItsName ==
    (op = "condition" /\ pc = "idle" /\ Has(data, "WeatherIcon"))
    => \A i \in 1..Len(CONDITION_CLASSES) :
         Listing(data["WeatherIcon"]) = {i}
         => result = Value(CONDITION_CLASSES[i].name)

C4_Witness ==
    /\ op = "condition" /\ pc = "idle" /\ Has(data, "WeatherIcon")
    /\ Listing(data["WeatherIcon"]) = {2}
    /\ result = Value(ClassNames[2])

\* C5: an icon listed under no name makes condition return None, not raise.
C5_UnlistedCodeGivesNone ==
    (op = "condition" /\ pc = "idle" /\ Has(data, "WeatherIcon")
       /\ Listing(data["WeatherIcon"]) = {})
    => result = None

C5_Witness ==
    /\ op = "condition" /\ pc = "idle" /\ Has(data, "WeatherIcon")
    /\ Listing(data["WeatherIcon"]) = {}
    /\ result.kind = "none"

\* The instant of forecast day k of DayItem: 07:00 UTC on 2000-02-28 and the
\* days after it (2000 is a leap year).
DayInstant(k) ==
    [year |-> 2000, month |-> IF k <= 2 THEN 2 ELSE 3,
     day |-> IF k <= 2 THEN 27 + k ELSE k - 2,
     hour |-> 7, minute |-> 0, second |-> 0, offset |-> "+00:00"]

\* C6: a list returned by forecast is as long as the snapshot's forecast
\* list and its i-th entry holds the fields of the i-th item.
C6_LengthAndOrderPreserved ==
    (ForecastRead /\ result.kind = "value")
    => LET items == data[ATTR_FORECAST]
           out == result.val[1]
       IN /\ Len(out) = Len(items)
          /\ \A k \in 1..Len(items) :
               /\ out[k].native_temperature = items[k]["TemperatureMax"]["Value"]
               /\ out[k].native_templow = items[k]["TemperatureMin"]["Value"]
               /\ out[k].native_precipitation = items[k]["TotalLiquidDay"]["Value"]
               /\ out[k].precipitation_probability =
                     items[k]["PrecipitationProbabilityDay"]
               /\ out[k].native_wind_speed = items[k]["WindDay"]["Speed"]["Value"]
               /\ out[k].wind_bearing = items[k]["WindDay"]["Direction"]["Degrees"]
               /\ items[k]["EpochDate"] = FirstEpoch + (k - 1) * SecondsPerDay
                    => out[k].datetime = DayInstant(k)

C6_Witness ==
    /\ ForecastRead /\ result.kind = "value"
    /\ Len(data[ATTR_FORECAST]) = 5 /\ Len(result.val[1]) = 5
    /\ result.val[1][5].native_temperature = 25
    /\ result.val[1][3].datetime.month = 3 /\ result.val[1][3].datetime.day = 1

\* The nested path each getter subscripts.
NeededPath(o) ==
    CASE o = "condition" -> <<"WeatherIcon">>
      [] o = "native_temperature" -> <<"Temperature", "Metric", "Value">>
      [] o = "native_pressure" -> <<"Pressure", "Metric", "Value">>
      [] o = "humidity" -> <<"RelativeHumidity">>
      [] o = "native_wind_speed" -> <<"Wind", "Speed", "Metric", "Value">>
      [] o = "wind_bearing" -> <<"Wind", "Direction", "Degrees">>
      [] o = "native_visibility" -> <<"Visibility", "Metric", "Value">>

\* C7: a read whose path is missing from the snapshot, or a forecast over a
\* list with an item lacking a field, ends in a lookup error that leaves
\* the property; it returns neither None nor a value.
C7_ShapeMismatchPropagates ==
    /\ (op \in Ops \ {"forecast"} /\ pc = "idle"
          /\ ~HasPath(data, NeededPath(op)))
       => result = Raise("KeyError")
    /\ (ForecastRead /\ \E k \in DOMAIN data[ATTR_FORECAST] :
                            ~WellFormedItem(data[ATTR_FORECAST][k]))
       => (result.kind = "raise" /\ result.exc \in {"KeyError", "IndexError"})

C7_Witness ==
    /\ ForecastRead
    /\ Len(data[ATTR_FORECAST]) = 2
    /\ WellFormedItem(data[ATTR_FORECAST][1])
    /\ Has(data[ATTR_FORECAST][2], "WindDay")
    /\ "Speed" \notin DOMAIN data[ATTR_FORECAST][2]["WindDay"]
    /\ result = Raise("KeyError")

\* C8: a step that reads a property, whether it returns or raises, leaves
\* the table, the coordinator's snapshot and forecast handle and the
\* entity's attributes as they were.
C8_ReadsWriteNothing ==
    [][op' # "" => UNCHANGED <<CONDITION_CLASSES, data, forecast_on, attrs>>]_vars

C8_Witness ==
    /\ ForecastRead /\ result.kind = "raise"
    /\ Len(data[ATTR_FORECAST]) = 2
    /\ attrs = init_attrs(attrs.unique_id)

\* C9: the forecast reads made with no refresh between them all have the
\* same outcome.
C9_ForecastIdempotent ==
    \A i, j \in DOMAIN forecastLog : forecastLog[i] = forecastLog[j]

C9_Witness ==
    /\ op = "forecast" /\ Len(forecastLog) = 2
    /\ forecastLog[1].kind = "value" /\ Len(forecastLog[1].val[1]) = 2
    /\ forecastLog[2] = forecastLog[1]

\* C10: an icon listed under several names resolves to the earliest declared
\* of them, in condition and in every entry of forecast, and neither raises.
C10_EarliestNameWins ==
    /\ (op = "condition" /\ pc = "idle" /\ Has(data, "WeatherIcon")
          /\ Cardinality(Listing(data["WeatherIcon"])) >= 2)
       => result =
            Value(CONDITION_CLASSES[Earliest(Listing(data["WeatherIcon"]))].name)
    /\ (ForecastRead
          /\ \A k \in DOMAIN data[ATTR_FORECAST] :
                /\ WellFormedItem(data[ATTR_FORECAST][k])
                /\ Listing(data[ATTR_FORECAST][k]["IconDay"]) # {})
       => /\ result.kind = "value"
          /\ \A k \in DOMAIN data[ATTR_FORECAST] :
               result.val[1][k].condition =
                 CONDITION_CLASSES[
                   Earliest(Listing(data[ATTR_FORECAST][k]["IconDay"]))].name

C10_Witness ==
    /\ op = "condition" /\ pc = "idle" /\ Has(data, "WeatherIcon")
    /\ Listing(data["WeatherIcon"]) = {1, 2}
    /\ result = Value(ClassNames[1])

\* C3: whatever the coordinator publishes before or after a read, the
\* outcome of the read is that of the read on the one snapshot (and forecast
\* handle) the coordinator held when the property was called.
C3_ReadSeesOneSnapshot ==
    (op # "" /\ pc = "idle")
    => result = Whole(op, CONDITION_CLASSES, seen[1], seen[2])

C3_Witness ==
    /\ op = "forecast" /\ pc = "idle"
    /\ data # FirstSnapshot
    /\ seen = <<data, forecast_on>>
    /\ result.kind = "value" /\ Len(result.val[1]) = 2

====
